---------------------------- MODULE Spec2Model ----------------------------
(***************************************************************************)
(* A model of the SHA-256 program of src/sha256.cpp: pad, schedule,        *)
(* runschedule, message, hashDigest and the command line loop of main.     *)
(*                                                                         *)
(* Representation of the machine types.                                    *)
(*   uint32_t      a pair <<hi, lo>> of 16-bit halves, value hi*2^16 + lo  *)
(*                 (the model checker's integers are narrower than 2^32);  *)
(*   uint64_t,                                                             *)
(*   size_t        four 16-bit limbs <<l3, l2, l1, l0>>, most significant  *)
(*                 first (an LP64 / LLP64 build: size_t is 64 bits wide);  *)
(*   unsigned char an integer in 0..255;                                   *)
(*   Message       a sequence of bytes; Digest, Block, Schedule            *)
(*                 sequences of 8, 16 and 64 words, indexed from 1.        *)
(***************************************************************************)
EXTENDS Integers, Sequences, FiniteSets, TLC

VARIABLES
    mode,        \* which caller drives the run: "pad", "lib" or "cli"
    pc,          \* position of the running code
    msg,         \* the Message buffer handed to message() (main's msg)
    msg0,        \* the bytes the buffer held when message() was entered
    padding,     \* message(): the padding pad() returned
    i,           \* message(): byte index of the block loop
    j,           \* message(): word index of the inner loop
    B,           \* message(): the Block being packed
    digest,      \* message(): the running Digest; then the caller's digest
    blocks,      \* number of schedule+runschedule passes of this call
    start,       \* the Digest the current computation started from
    calls,       \* completed computations: input, start state, result
    args,        \* main: the argument vector after argv[0]
    argi,        \* main: index of the argument being processed
    doublehash,  \* main: the doublehash flag
    out,         \* main: the lines written to std::cout
    err,         \* main: the lines written to std::cerr
    exc,         \* the exception in flight ("none" when there is none)
    reads,       \* message(): the byte indices msg[i++] has read, in order
    passes,      \* message(): input and output Digest of each block pass
    l,           \* pad caller: the bit length handed to pad
    padres       \* pad caller: what pad did with it

vars == << mode, pc, msg, msg0, padding, i, j, B, digest, blocks, start,
           calls, args, argi, doublehash, out, err, exc, reads, passes,
           l, padres >>

(***************************************************************************)
(* uint32_t arithmetic on halves.                                          *)
(***************************************************************************)
Half == 2 ^ 16

Pow2(n) == 2 ^ n

RECURSIVE And16(_, _)
And16(a, b) ==
    IF a = 0 \/ b = 0 THEN 0
    ELSE (a % 2) * (b % 2) + 2 * And16(a \div 2, b \div 2)

RECURSIVE Xor16(_, _)
Xor16(a, b) ==
    IF a = 0 THEN b
    ELSE IF b = 0 THEN a
    ELSE ((a + b) % 2) + 2 * Xor16(a \div 2, b \div 2)

RECURSIVE Or16(_, _)
Or16(a, b) ==
    IF a = 0 THEN b
    ELSE IF b = 0 THEN a
    ELSE (IF a % 2 = 1 \/ b % 2 = 1 THEN 1 ELSE 0) + 2 * Or16(a \div 2, b \div 2)

AND(x, y) == << And16(x[1], y[1]), And16(x[2], y[2]) >>
XOR(x, y) == << Xor16(x[1], y[1]), Xor16(x[2], y[2]) >>
OR(x, y)  == << Or16(x[1], y[1]), Or16(x[2], y[2]) >>
NOT(x)    == << (Half - 1) - x[1], (Half - 1) - x[2] >>

\* x + y on uint32_t: the carry out of bit 31 is dropped.
ADD(x, y) ==
    LET s == x[2] + y[2]
    IN  << (x[1] + y[1] + s \div Half) % Half, s % Half >>

\* x >> n on uint32_t, 0 < n < 16.
SHR(x, n) ==
    << x[1] \div Pow2(n),
       (x[2] \div Pow2(n)) + (x[1] % Pow2(n)) * Pow2(16 - n) >>

\* x << n on uint32_t, 0 < n < 16: the bits shifted out of bit 31 are lost.
SHL(x, n) ==
    << ((x[1] % Pow2(16 - n)) * Pow2(n)) + x[2] \div Pow2(16 - n),
       (x[2] % Pow2(16 - n)) * Pow2(n) >>

\* A word made from a byte (the integral promotion of an unsigned char).
Byte(a) == << 0, a >>

ROTRlow(x, n) ==
    IF n = 0 THEN x
    ELSE << (x[1] \div Pow2(n)) + (x[2] % Pow2(n)) * Pow2(16 - n),
            (x[2] \div Pow2(n)) + (x[1] % Pow2(n)) * Pow2(16 - n) >>

\* Rotate right by 0 <= n < 32.
ROTR(x, n) ==
    IF n < 16 THEN ROTRlow(x, n) ELSE ROTRlow(<< x[2], x[1] >>, n - 16)

(***************************************************************************)
(* The constant tables.                                                    *)
(***************************************************************************)
K ==
    << <<\H428a, \H2f98>>, <<\H7137, \H4491>>, <<\Hb5c0, \Hfbcf>>, <<\He9b5, \Hdba5>>,
       <<\H3956, \Hc25b>>, <<\H59f1, \H11f1>>, <<\H923f, \H82a4>>, <<\Hab1c, \H5ed5>>,
       <<\Hd807, \Haa98>>, <<\H1283, \H5b01>>, <<\H2431, \H85be>>, <<\H550c, \H7dc3>>,
       <<\H72be, \H5d74>>, <<\H80de, \Hb1fe>>, <<\H9bdc, \H06a7>>, <<\Hc19b, \Hf174>>,
       <<\He49b, \H69c1>>, <<\Hefbe, \H4786>>, <<\H0fc1, \H9dc6>>, <<\H240c, \Ha1cc>>,
       <<\H2de9, \H2c6f>>, <<\H4a74, \H84aa>>, <<\H5cb0, \Ha9dc>>, <<\H76f9, \H88da>>,
       <<\H983e, \H5152>>, <<\Ha831, \Hc66d>>, <<\Hb003, \H27c8>>, <<\Hbf59, \H7fc7>>,
       <<\Hc6e0, \H0bf3>>, <<\Hd5a7, \H9147>>, <<\H06ca, \H6351>>, <<\H1429, \H2967>>,
       <<\H27b7, \H0a85>>, <<\H2e1b, \H2138>>, <<\H4d2c, \H6dfc>>, <<\H5338, \H0d13>>,
       <<\H650a, \H7354>>, <<\H766a, \H0abb>>, <<\H81c2, \Hc92e>>, <<\H9272, \H2c85>>,
       <<\Ha2bf, \He8a1>>, <<\Ha81a, \H664b>>, <<\Hc24b, \H8b70>>, <<\Hc76c, \H51a3>>,
       <<\Hd192, \He819>>, <<\Hd699, \H0624>>, <<\Hf40e, \H3585>>, <<\H106a, \Ha070>>,
       <<\H19a4, \Hc116>>, <<\H1e37, \H6c08>>, <<\H2748, \H774c>>, <<\H34b0, \Hbcb5>>,
       <<\H391c, \H0cb3>>, <<\H4ed8, \Haa4a>>, <<\H5b9c, \Hca4f>>, <<\H682e, \H6ff3>>,
       <<\H748f, \H82ee>>, <<\H78a5, \H636f>>, <<\H84c8, \H7814>>, <<\H8cc7, \H0208>>,
       <<\H90be, \Hfffa>>, <<\Ha450, \H6ceb>>, <<\Hbef9, \Ha3f7>>, <<\Hc671, \H78f2>> >>

H0 ==
    << <<\H6a09, \He667>>, <<\Hbb67, \Hae85>>, <<\H3c6e, \Hf372>>, <<\Ha54f, \Hf53a>>,
       <<\H510e, \H527f>>, <<\H9b05, \H688c>>, <<\H1f83, \Hd9ab>>, <<\H5be0, \Hcd19>> >>

(***************************************************************************)
(* Section 4.1.2: the six logical functions.                               *)
(***************************************************************************)
Ch(x, y, z)  == XOR(AND(x, y), AND(NOT(x), z))
Maj(x, y, z) == XOR(XOR(AND(x, y), AND(x, z)), AND(y, z))

sigma_4_4(x) == XOR(XOR(ROTR(x, 2), ROTR(x, 13)), ROTR(x, 22))
sigma_4_5(x) == XOR(XOR(ROTR(x, 6), ROTR(x, 11)), ROTR(x, 25))
\* sigma_4_6 with its shift written as a rotation.
sigma_4_6_rotated(x) == XOR(XOR(ROTR(x, 7), ROTR(x, 18)), ROTR(x, 3))
sigma_4_6(x) == XOR(XOR(ROTR(x, 7), ROTR(x, 18)), SHR(x, 3))
sigma_4_7(x) == XOR(XOR(ROTR(x, 17), ROTR(x, 19)), SHR(x, 10))

(***************************************************************************)
(* schedule: W[0..15] are the block, W[t] for t in 16..63 comes from four  *)
(* earlier entries.  The sequence is indexed from 1, so the code's W[t] is *)
(* W[t + 1] here, and the loop counter t is the number of entries so far.  *)
(***************************************************************************)
RECURSIVE scheduleFrom(_)
scheduleFrom(W) ==
    LET t == Len(W)
    IN  IF t >= 64 THEN W
        ELSE scheduleFrom(
               Append(W, ADD(ADD(ADD(sigma_4_7(W[t - 2 + 1]), W[t - 7 + 1]),
                                 sigma_4_6(W[t - 15 + 1])),
                             W[t - 16 + 1])))

schedule(M) == scheduleFrom(M)

(***************************************************************************)
(* runschedule: 64 rounds on the working variables a..h (s.v[1..8]) with   *)
(* the loop counter s.t, then the word-wise sum with the digest given.     *)
(***************************************************************************)
round(W, s) ==
    LET v  == s.v
        T1 == ADD(ADD(ADD(ADD(v[8], sigma_4_5(v[5])), Ch(v[5], v[6], v[7])),
                      K[s.t + 1]),
                  W[s.t + 1])
        T2 == ADD(sigma_4_4(v[1]), Maj(v[1], v[2], v[3]))
    IN  [v |-> << ADD(T1, T2), v[1], v[2], v[3],
                  ADD(v[4], T1), v[5], v[6], v[7] >>,
         t |-> s.t + 1]

RECURSIVE rounds(_, _)
rounds(W, s) ==
    IF s.t >= 64 THEN s.v ELSE rounds(W, round(W, s))

runschedule(W, H) ==
    LET v == rounds(W, [v |-> H, t |-> 0])
    IN  << ADD(H[1], v[1]), ADD(H[2], v[2]), ADD(H[3], v[3]), ADD(H[4], v[4]),
           ADD(H[5], v[5]), ADD(H[6], v[6]), ADD(H[7], v[7]), ADD(H[8], v[8]) >>

(***************************************************************************)
(* uint64_t / size_t arithmetic on limbs, modulo 2^64.                     *)
(***************************************************************************)
\* The 64-bit value of a natural number below 2^31.
U64(n) == << 0, 0, n \div Half, n % Half >>

\* a - b on uint64_t: a borrow out of bit 63 is dropped (the value wraps).
Sub64(a, b) ==
    LET d4 == a[4] - b[4]
        c4 == IF d4 < 0 THEN 1 ELSE 0
        d3 == a[3] - b[3] - c4
        c3 == IF d3 < 0 THEN 1 ELSE 0
        d2 == a[2] - b[2] - c3
        c2 == IF d2 < 0 THEN 1 ELSE 0
        d1 == a[1] - b[1] - c2
    IN  << (d1 + Half) % Half, (d2 + Half) % Half,
           (d3 + Half) % Half, (d4 + Half) % Half >>

\* a + b on uint64_t: a carry out of bit 63 is dropped.
Add64(a, b) ==
    LET s4 == a[4] + b[4]
        s3 == a[3] + b[3] + s4 \div Half
        s2 == a[2] + b[2] + s3 \div Half
        s1 == a[1] + b[1] + s2 \div Half
    IN  << s1 % Half, s2 % Half, s3 % Half, s4 % Half >>

\* a / 8 on uint64_t.
Div8(a) ==
    << a[1] \div 8,
       (a[2] \div 8) + (a[1] % 8) * (Half \div 8),
       (a[3] \div 8) + (a[2] % 8) * (Half \div 8),
       (a[4] \div 8) + (a[3] % 8) * (Half \div 8) >>

\* a % m for m = 512 or 1024 (a power of two that divides 2^16).
Mod64(a, m) == a[4] % m

\* The natural number a 64-bit value below 2^31 stands for.
Nat64(a) == a[3] * Half + a[4]

\* size_t(-1): what the conversion of tellg()'s pos_type(-1) gives.
SizeMax == << Half - 1, Half - 1, Half - 1, Half - 1 >>

(***************************************************************************)
(* std::vector<unsigned char>::resize(n, 0).  A request above max_size()   *)
(* (2^63 - 1) throws std::length_error; a request of 2^48 bytes or more is *)
(* beyond what operator new can deliver and throws std::bad_alloc.  The    *)
(* requests below that this program makes are all far below 2^31.          *)
(***************************************************************************)
ResizeThrows(n) ==
    IF n[1] >= Half \div 2 THEN "length_error"
    ELSE IF n[1] >= 1 THEN "bad_alloc"
    ELSE "none"

Resize(v, n) ==
    IF Nat64(n) <= Len(v) THEN SubSeq(v, 1, Nat64(n))
    ELSE v \o [k \in 1..(Nat64(n) - Len(v)) |-> 0]

(***************************************************************************)
(* pad: the padding for a message of l bits.  The result is the exception  *)
(* thrown ("none" when pad returns) and the bytes returned.                *)
(***************************************************************************)
\* The object representation of l on the little-endian hosts the build
\* targets: bytes[0] is the least significant byte (MemBytes(x)[k + 1] is
\* the code's bytes[k]).
MemBytes(x) ==
    << x[4] % 256, x[4] \div 256, x[3] % 256, x[3] \div 256,
       x[2] % 256, x[2] \div 256, x[1] % 256, x[1] \div 256 >>

\* for (i = sizeof(l) - 1; i >= 0; --i) p.push_back(bytes[i])
PushLength(p, x) == p \o [k \in 1..8 |-> MemBytes(x)[8 - k + 1]]

\* The size pad asks resize for in its third branch: k / 8 + 1 with
\* k = 960 - (l % 1024 + 1), all in 64-bit unsigned arithmetic.
SpillCount(x) ==
    Add64(Div8(Sub64(U64(960), U64(Mod64(x, 1024) + 1))), U64(1))

\* The same in the fourth branch, with k = 448 - (l % 512 + 1).
TypicalCount(x) ==
    Add64(Div8(Sub64(U64(448), U64(Mod64(x, 512) + 1))), U64(1))

\* The third branch taken from l % 512 = 440 on.
PadCountInclusive(x) ==
    IF x = U64(0) THEN U64(56)
    ELSE IF Mod64(x, 512) >= 440 THEN SpillCount(x)
    ELSE TypicalCount(x)

PadCount(x) ==
    IF x = U64(0) THEN U64(56)
    ELSE IF Mod64(x, 512) > 440 THEN SpillCount(x)
    ELSE TypicalCount(x)

pad(x) ==
    IF x # U64(0) /\ Mod64(x, 512) = 0
    THEN [exc |-> "none", bytes |-> << >>]
    ELSE IF ResizeThrows(PadCount(x)) # "none"
    THEN [exc |-> ResizeThrows(PadCount(x)), bytes |-> << >>]
    ELSE [exc |-> "none",
          bytes |-> PushLength(Resize(<< 128 >>, PadCount(x)), x)]

(***************************************************************************)
(* message: the digest of the bytes in msg.  One action per step of the    *)
(* function: its first two statements, the padding, one pass of the inner  *)
(* loop (one word), and the end of one pass of the outer loop (one block). *)
(***************************************************************************)
ZeroBlock  == [k \in 1..16 |-> << 0, 0 >>]
ZeroDigest == [k \in 1..8 |-> << 0, 0 >>]

\* A digest that keeps the value the last computation left in it.
DigestInitStale == digest

\* Digest digest = H0;
DigestInit == H0

\* The padding appended to a copy, the caller's buffer left as it was.
AppendPaddingToCopy(m, p) == m

\* std::ranges::copy(padding, std::back_inserter(msg)): msg is a reference
\* to the caller's vector, so the caller's buffer grows.
AppendPadding(m, p) == m \o p

\* What msg[k] reads (k counted from 0).  Beyond the end of the vector the
\* read is undefined behaviour: any byte value may come back.
UBBytes == {0, 255}
At(m, k) == IF k < Len(m) THEN {m[k + 1]} ELSE UBBytes

\* w = w | a; w <<= 8; w = w | b; w <<= 8; w = w | c; w <<= 8; w = w | d;
PackWord(a, b, c, d) ==
    OR(SHL(OR(SHL(OR(SHL(OR(<< 0, 0 >>, Byte(a)), 8), Byte(b)), 8), Byte(c)), 8),
       Byte(d))

\* The outer loop's test taken once more when i has reached the size.
OuterAgainInclusive(idx, size) == idx <= size

\* } while (i < msg.size());
OuterAgain(idx, size) == idx < size

message_enter ==
    /\ pc = "m_enter"
    /\ msg0' = msg
    /\ digest' = DigestInit
    /\ start' = DigestInit
    /\ blocks' = 0
    /\ reads' = << >>
    /\ passes' = << >>
    /\ pc' = "m_pad"
    /\ UNCHANGED << mode, msg, padding, i, j, B, calls, args, argi,
                    doublehash, out, err, exc, l, padres >>

message_pad ==
    /\ pc = "m_pad"
    /\ LET p == pad(U64(Len(msg) * 8))
       IN  IF p.exc # "none"
           THEN /\ exc' = p.exc
                /\ pc' = "throw"
                /\ UNCHANGED << msg, padding, i, j, B >>
           ELSE /\ padding' = p.bytes
                /\ msg' = AppendPadding(msg, p.bytes)
                /\ i' = 0
                /\ j' = 0
                /\ B' = ZeroBlock
                /\ pc' = "m_parse"
                /\ exc' = exc
    /\ UNCHANGED << mode, msg0, digest, blocks, start, calls, args, argi,
                    doublehash, out, err, reads, passes, l, padres >>

message_word ==
    /\ pc = "m_parse"
    /\ \E a \in At(msg, i), b \in At(msg, i + 1),
          c \in At(msg, i + 2), d \in At(msg, i + 3) :
          B' = [B EXCEPT ![j + 1] = PackWord(a, b, c, d)]
    /\ reads' = reads \o << i, i + 1, i + 2, i + 3 >>
    /\ i' = i + 4
    /\ j' = j + 1
    /\ pc' = IF j + 1 < 16 THEN "m_parse" ELSE "m_block"
    /\ UNCHANGED << mode, msg, msg0, padding, digest, blocks, start, calls,
                    args, argi, doublehash, out, err, exc, passes, l, padres >>

message_block ==
    /\ pc = "m_block"
    /\ LET next == runschedule(schedule(B), digest)
       IN  /\ digest' = next
           /\ passes' = Append(passes, [in |-> digest, out |-> next])
           /\ IF OuterAgain(i, Len(msg))
              THEN /\ B' = ZeroBlock
                   /\ pc' = "m_parse"
                   /\ calls' = calls
              ELSE /\ B' = B
                   /\ pc' = "m_ret"
                   /\ calls' = Append(calls,
                          [fn |-> "message", input |-> msg0, start |-> start,
                           result |-> next, blocks |-> blocks + 1,
                           size |-> Len(msg)])
    /\ blocks' = blocks + 1
    /\ j' = 0
    /\ UNCHANGED << mode, msg, msg0, padding, i, start, args, argi,
                    doublehash, out, err, exc, reads, l, padres >>

(***************************************************************************)
(* hashDigest: one pass over the digest followed by a fixed padding.       *)
(***************************************************************************)
startPad ==
    << <<\H8000, \H0000>>, <<0, 0>>, <<0, 0>>, <<0, 0>>,
       <<0, 0>>, <<0, 0>>, <<0, 0>>, <<\H0000, \H0200>> >>

\* Digest digest = H0;
hashDigestInit == H0

hashDigest(d) == runschedule(schedule(d \o startPad), hashDigestInit)

(***************************************************************************)
(* The text main writes for a digest: each word through                    *)
(* std::setw(8) << std::setfill('0') << std::hex.                          *)
(***************************************************************************)
HexChars ==
    << "0", "1", "2", "3", "4", "5", "6", "7",
       "8", "9", "a", "b", "c", "d", "e", "f" >>

\* std::hex on an unsigned value: its digits, no leading zeros.
RECURSIVE Hex(_)
Hex(n) ==
    IF n < 16 THEN HexChars[n + 1]
    ELSE Hex(n \div 16) \o HexChars[(n % 16) + 1]

\* std::setw(width) with std::setfill('0'): zeros on the left up to width.
RECURSIVE FillLeft(_, _)
FillLeft(str, width) ==
    IF Len(str) >= width THEN str ELSE FillLeft("0" \o str, width)

HexWord(w) ==
    FillLeft(IF w[1] = 0 THEN Hex(w[2])
             ELSE Hex(w[1]) \o FillLeft(Hex(w[2]), 4),
             8)

RECURSIVE HexFrom(_, _)
HexFrom(d, k) ==
    IF k > Len(d) THEN "" ELSE HexWord(d[k]) \o HexFrom(d, k + 1)

HexDigest(d) == HexFrom(d, 1)

(***************************************************************************)
(* The files main may be given.                                            *)
(***************************************************************************)
MaxArgs == 3
LongLen == 120

abc == << 97, 98, 99 >>
Zeros(n) == [k \in 1..n |-> 0]
Ramp(n)  == [k \in 1..n |-> k % 256]

FileNames == {"abc.txt", "copy.txt", "long.bin", "missing"}
Tokens == {"-"} \cup FileNames

\* Whether std::ifstream can open the file.
FileOpens(f) == f # "missing"

FileBytes(f) ==
    CASE f = "abc.txt"  -> abc
      [] f = "copy.txt" -> abc
      [] f = "long.bin" -> Zeros(LongLen)
      [] OTHER          -> << >>

\* seekg(0, end); size_t fileSize = infile.tellg(): on a stream that failed
\* to open tellg() returns pos_type(-1), which converts to size_t(-1).
TellSize(f) == IF FileOpens(f) THEN U64(Len(FileBytes(f))) ELSE SizeMax

\* infile.read(msg.data(), fileSize): the file's bytes over the buffer's.
ReadInto(buf, f) ==
    [k \in 1..Len(buf) |->
        IF k <= Len(FileBytes(f)) THEN FileBytes(f)[k] ELSE buf[k]]

(***************************************************************************)
(* main.                                                                   *)
(***************************************************************************)
\* doublehash = !doublehash;
DashToggle(old) == ~old

\* doublehash = true;
DashFlag(old) == TRUE

OutLine(file, d, dbl) ==
    (IF dbl THEN " double hashed" ELSE "")
        \o "SHA-256 (" \o file \o ") = " \o HexDigest(d)

\* if (argc == 1) { usage; return 0; }
main_usage ==
    /\ mode = "cli" /\ pc = "main"
    /\ Len(args) = 0
    /\ out' = Append(out, [idx |-> 0, file |-> "", dbl |-> FALSE,
                           digest |-> << >>,
                           text |-> "$ sha256 [-] file1 [file2 ...]"])
    /\ pc' = "exit"
    /\ UNCHANGED << mode, msg, msg0, padding, i, j, B, digest, blocks, start,
                    calls, args, argi, doublehash, err, exc, l, padres, reads,
                    passes >>

\* Message msg = {}; bool doublehash = false; the loop starts.
main_begin ==
    /\ mode = "cli" /\ pc = "main"
    /\ Len(args) > 0
    /\ msg' = << >>
    /\ doublehash' = FALSE
    /\ argi' = 1
    /\ pc' = "loop"
    /\ UNCHANGED << mode, msg0, padding, i, j, B, digest, blocks, start,
                    calls, args, out, err, exc, l, padres, reads,
                    passes >>

\* if (file == "-") { doublehash = true; continue; }
main_dash ==
    /\ mode = "cli" /\ pc = "loop"
    /\ argi <= Len(args)
    /\ args[argi] = "-"
    /\ doublehash' = DashFlag(doublehash)
    /\ argi' = argi + 1
    /\ UNCHANGED << mode, pc, msg, msg0, padding, i, j, B, digest, blocks,
                    start, calls, args, out, err, exc, l, padres, reads,
                    passes >>

\* Open the file, size the buffer to it, read it, and call message(msg).
main_read ==
    /\ mode = "cli" /\ pc = "loop"
    /\ argi <= Len(args)
    /\ args[argi] # "-"
    /\ LET file == args[argi]
           fileSize == TellSize(file)
       IN  IF ResizeThrows(fileSize) # "none"
           THEN /\ exc' = ResizeThrows(fileSize)
                /\ pc' = "throw"
                /\ msg' = msg
           ELSE /\ msg' = ReadInto(Resize(msg, fileSize), file)
                /\ pc' = "m_enter"
                /\ exc' = exc
    /\ UNCHANGED << mode, msg0, padding, i, j, B, digest, blocks, start,
                    calls, args, argi, doublehash, out, err, l, padres, reads,
                    passes >>

\* message(msg) has returned: double hash if asked, write the line, msg = {}.
main_emit ==
    /\ mode = "cli" /\ pc = "m_ret"
    /\ LET d == IF doublehash THEN hashDigest(digest) ELSE digest
       IN  /\ digest' = d
           /\ calls' = IF doublehash
                       THEN Append(calls,
                              [fn |-> "hashDigest", input |-> digest,
                               start |-> hashDigestInit, result |-> d,
                               blocks |-> 1, size |-> 0])
                       ELSE calls
           /\ out' = Append(out, [idx |-> argi, file |-> args[argi],
                                  dbl |-> doublehash, digest |-> d,
                                  text |-> OutLine(args[argi], d, doublehash)])
    /\ msg' = << >>
    /\ argi' = argi + 1
    /\ pc' = "loop"
    /\ UNCHANGED << mode, msg0, padding, i, j, B, blocks, start, args,
                    doublehash, err, exc, l, padres, reads,
                    passes >>

\* The loop is over: return 0.
main_return ==
    /\ mode = "cli" /\ pc = "loop"
    /\ argi > Len(args)
    /\ pc' = "exit"
    /\ UNCHANGED << mode, msg, msg0, padding, i, j, B, digest, blocks, start,
                    calls, args, argi, doublehash, out, err, exc, l, padres, reads,
                    passes >>

\* catch (std::out_of_range) ... catch (...) ...; return 0.
main_catch ==
    /\ mode = "cli" /\ pc = "throw"
    /\ err' = Append(err, IF exc = "out_of_range" THEN "range error"
                          ELSE "unknown exception thrown")
    /\ pc' = "exit"
    /\ UNCHANGED << mode, msg, msg0, padding, i, j, B, digest, blocks, start,
                    calls, args, argi, doublehash, out, exc, l, padres, reads,
                    passes >>

(***************************************************************************)
(* A caller of the library functions: it hashes a buffer with message(),   *)
(* and then either hashes the same buffer once more, or double hashes the  *)
(* digest with hashDigest() and hashes the digest's 32 bytes with          *)
(* message() for comparison.                                               *)
(***************************************************************************)
MaxBytes == 130
MaxRamp  == 66

Inputs ==
    {abc} \cup {Zeros(n) : n \in 0..MaxBytes} \cup {Ramp(n) : n \in 1..MaxRamp}

\* The 32 bytes of a digest, each word most significant byte first.
RECURSIVE Serialize(_)
Serialize(d) ==
    IF d = << >> THEN << >>
    ELSE << d[1][1] \div 256, d[1][1] % 256, d[1][2] \div 256, d[1][2] % 256 >>
         \o Serialize(Tail(d))

lib_again ==
    /\ mode = "lib" /\ pc = "m_ret"
    /\ Len(calls) = 1
    /\ pc' = "m_enter"
    /\ UNCHANGED << mode, msg, msg0, padding, i, j, B, digest, blocks, start,
                    calls, args, argi, doublehash, out, err, exc, l, padres, reads,
                    passes >>

lib_double ==
    /\ mode = "lib" /\ pc = "m_ret"
    /\ Len(calls) = 1
    /\ LET d == hashDigest(digest)
       IN  /\ digest' = d
           /\ calls' = Append(calls,
                         [fn |-> "hashDigest", input |-> digest,
                          start |-> hashDigestInit, result |-> d,
                          blocks |-> 1, size |-> 0])
    /\ pc' = "hashed"
    /\ UNCHANGED << mode, msg, msg0, padding, i, j, B, blocks, start, args,
                    argi, doublehash, out, err, exc, l, padres, reads,
                    passes >>

lib_reference ==
    /\ mode = "lib" /\ pc = "hashed"
    /\ msg' = Serialize(calls[1].result)
    /\ pc' = "m_enter"
    /\ UNCHANGED << mode, msg0, padding, i, j, B, digest, blocks, start,
                    calls, args, argi, doublehash, out, err, exc, l, padres, reads,
                    passes >>

(***************************************************************************)
(* A caller of pad alone.                                                  *)
(***************************************************************************)
MaxPadBytes == 300

pad_call ==
    /\ mode = "pad" /\ pc = "pad_call"
    /\ padres' = pad(l)
    /\ pc' = "pad_done"
    /\ UNCHANGED << mode, msg, msg0, padding, i, j, B, digest, blocks, start,
                    calls, args, argi, doublehash, out, err, exc, l, reads,
                    passes >>

(***************************************************************************)
(* The specifications.                                                     *)
(***************************************************************************)
Idle ==
    /\ msg0 = << >> /\ padding = << >>
    /\ i = 0 /\ j = 0 /\ B = ZeroBlock
    /\ digest = ZeroDigest /\ start = ZeroDigest /\ blocks = 0
    /\ calls = << >>
    /\ argi = 0 /\ doublehash = FALSE
    /\ out = << >> /\ err = << >> /\ exc = "none"
    /\ reads = << >> /\ passes = << >>
    /\ padres = [exc |-> "none", bytes |-> << >>]

\* A caller that hashes one of the Inputs.
Init ==
    /\ mode = "lib" /\ pc = "m_enter"
    /\ msg \in Inputs
    /\ args = << >> /\ l = U64(0)
    /\ Idle

message_step ==
    \/ message_enter
    \/ message_pad
    \/ message_word
    \/ message_block

Next ==
    \/ message_step
    \/ lib_again
    \/ lib_double
    \/ lib_reference

Spec == Init /\ [][Next]_vars

\* The program started with up to MaxArgs arguments.
InitMain ==
    /\ mode = "cli" /\ pc = "main"
    /\ args \in UNION {[1..n -> Tokens] : n \in 0..MaxArgs}
    /\ msg = << >> /\ l = U64(0)
    /\ Idle

NextMain ==
    \/ main_usage
    \/ main_begin
    \/ main_dash
    \/ main_read
    \/ message_step
    \/ main_emit
    \/ main_return
    \/ main_catch

SpecMain == InitMain /\ [][NextMain]_vars

\* pad called with the bit length of a message of up to MaxPadBytes bytes.
InitPad ==
    /\ mode = "pad" /\ pc = "pad_call"
    /\ l \in {U64(8 * n) : n \in 0..MaxPadBytes}
    /\ msg = << >> /\ args = << >>
    /\ Idle

NextPad == pad_call

SpecPad == InitPad /\ [][NextPad]_vars

(***************************************************************************)
(* Properties.                                                             *)
(***************************************************************************)
\* The completed message() calls and hashDigest() calls, by position.
MessageCalls == {k \in 1..Len(calls) : calls[k].fn = "message"}
DoubleCalls  == {k \in 1..Len(calls) : calls[k].fn = "hashDigest"}

\* The 64-bit big-endian encoding of a natural number below 2^31.
BigEndian64(n) ==
    << 0, 0, 0, 0,
       n \div (2 ^ 24), (n \div (2 ^ 16)) % 256, (n \div 256) % 256, n % 256 >>

\* C1: doubleHash(digest(m)) returns the same 8 words as digest applied to
\* the 32-byte big-endian serialization of digest(m): in the caller's run
\* message(m), hashDigest(digest), message(Serialize(digest)), the second
\* and the third result are equal.
C1_DoubleHashIsDigestOfDigest ==
    (mode = "lib" /\ pc = "m_ret" /\ Len(calls) = 3
        /\ calls[2].fn = "hashDigest" /\ calls[3].fn = "message"
        /\ calls[3].input = Serialize(calls[2].input))
    => calls[2].result = calls[3].result

\* C2: for a message of n bytes, l = 8n, other than l a non-zero multiple
\* of 512, pad(l) returns a padding p with l + 8 * size(p) a positive
\* multiple of 512, for every n.
C2_PaddedLengthMultipleOf512 ==
    (mode = "pad" /\ pc = "pad_done"
        /\ ~(Nat64(l) # 0 /\ Nat64(l) % 512 = 0))
    => /\ padres.exc = "none"
       /\ Nat64(l) + 8 * Len(padres.bytes) > 0
       /\ (Nat64(l) + 8 * Len(padres.bytes)) % 512 = 0

\* C3: for a 64-byte message, message() pads into a second block: the
\* padded buffer is 128 bytes long and two blocks are compressed.
C3_FullBlockGetsSecondBlock ==
    \A k \in MessageCalls :
        Len(calls[k].input) = 64
        => calls[k].size = 128 /\ calls[k].blocks = 2

\* C4: the digest of the 3 bytes "abc", rendered 8 hexadecimal digits per
\* word, is ba7816bf 8f01cfea 414140de 5dae2223 b00361a3 96177a9c b410ff61
\* f20015ad.
C4_AbcDigest ==
    \A k \in MessageCalls :
        calls[k].input = abc
        => HexDigest(calls[k].result) =
           "ba7816bf8f01cfea414140de5dae2223b00361a396177a9cb410ff61f20015ad"

C4_Witness ==
    \E k \in MessageCalls : calls[k].input = abc /\ Len(calls[k].result) = 8

\* C5: every computation starts from H0, and two computations of the same
\* function on identical input return identical results, whatever ran
\* before them.
C5_IndependentComputations ==
    /\ \A k \in 1..Len(calls) : calls[k].start = H0
    /\ pc \in {"m_pad", "m_parse", "m_block", "m_ret"} => start = H0
    /\ \A a, b \in 1..Len(calls) :
          (calls[a].fn = calls[b].fn /\ calls[a].input = calls[b].input)
          => calls[a].result = calls[b].result

\* Two message() computations on identical bytes with another computation
\* between them, and a hashDigest() computation before the first.
C5_Witness ==
    \E a, b \in MessageCalls :
        /\ a + 1 < b
        /\ calls[a].input = calls[b].input
        /\ \E c \in DoubleCalls : c > a /\ c < b

\* C6 as stated: after message(msg) returns the caller's buffer holds the
\* bytes it held before the call, and a second call on the same buffer
\* returns the same digest.
C6_BufferUnchanged ==
    /\ (mode = "lib" /\ pc = "m_ret") => msg = msg0
    /\ (mode = "lib" /\ Len(calls) = 2 /\ calls[2].fn = "message")
       => calls[2].result = calls[1].result

\* C6 as amended: message() appends the padding to the caller's buffer, not
\* to a copy: from the padding step on, and when message() has returned, the
\* buffer holds the bytes it held at the call followed by the padding pad
\* returned for them.  A second call on the same buffer gets those padded
\* bytes, a whole number of blocks, appends nothing and returns the same
\* digest.
C6_BufferPadded ==
    /\ (mode = "lib" /\ pc \in {"m_parse", "m_block", "m_ret"})
       => /\ msg = msg0 \o padding
          /\ padding = pad(U64(8 * Len(msg0))).bytes
    /\ (mode = "lib" /\ Len(calls) = 2 /\ calls[2].fn = "message")
       => /\ calls[2].input =
                calls[1].input \o pad(U64(8 * Len(calls[1].input))).bytes
          /\ calls[2].size = Len(calls[2].input)
          /\ calls[2].result = calls[1].result

C6_Witness ==
    /\ mode = "lib" /\ pc = "m_ret"
    /\ Len(calls) = 2 /\ calls[2].fn = "message"
    /\ Len(calls[2].input) > Len(calls[1].input)
    /\ msg = calls[2].input

\* The number of "-" tokens before position k of the argument list.
RECURSIVE DashesBefore(_)
DashesBefore(k) ==
    IF k <= 1 THEN 0
    ELSE DashesBefore(k - 1) + (IF args[k - 1] = "-" THEN 1 ELSE 0)

\* The positions of out's digest lines (the usage text has position 0).
DigestLines == {n \in 1..Len(out) : out[n].idx > 0}

\* C7 as stated: each "-" toggles double hashing for the files after it: a
\* file is double hashed exactly when the number of "-" before it is odd.
C7_DashToggles ==
    \A n \in DigestLines : out[n].dbl <=> (DashesBefore(out[n].idx) % 2 = 1)

\* C7 as amended: a "-" switches double hashing on for the files after it and
\* nothing switches it off: a file that is hashed is double hashed exactly
\* when at least one "-" precedes it, and then its line is the double hash
\* of the file's digest.
C7_DashSwitchesOn ==
    /\ \A n \in DigestLines :
          /\ out[n].dbl <=> (DashesBefore(out[n].idx) > 0)
          /\ out[n].text =
                (IF DashesBefore(out[n].idx) > 0 THEN " double hashed" ELSE "")
                \o "SHA-256 (" \o args[out[n].idx] \o ") = "
                \o HexDigest(out[n].digest)
    /\ (mode = "cli" /\ pc = "loop") => (doublehash <=> DashesBefore(argi) > 0)

\* A file after two "-" tokens has been hashed.
C7_Witness ==
    \E n \in DigestLines : DashesBefore(out[n].idx) = 2 /\ out[n].dbl

\* A file before a "-" and a file after it have both been hashed.
C7_WitnessBefore ==
    \E m, n \in DigestLines :
        m < n /\ ~out[m].dbl /\ out[n].dbl /\ DashesBefore(out[n].idx) = 1

\* A file whose digest the program writes when it gets that far.
Hashable(f) ==
    /\ f \in FileNames
    /\ FileOpens(f)
    /\ pad(U64(8 * Len(FileBytes(f)))).exc = "none"

\* C8: when a file argument cannot be opened, an error is reported, no
\* digest line is written for it, and every file argument after it still
\* gets its digest line before the process exits.
C8_ContinuesAfterFailure ==
    (mode = "cli" /\ pc = "exit")
    => \A k \in 1..Len(args) :
          (args[k] \in FileNames /\ ~FileOpens(args[k])
              /\ \A m \in 1..(k - 1) : args[m] = "-" \/ Hashable(args[m]))
          => /\ Len(err) > 0
             /\ \A n \in DigestLines : out[n].idx # k
             /\ \A m \in (k + 1)..Len(args) :
                   Hashable(args[m]) => \E n \in DigestLines : out[n].idx = m

\* C9: for a 55-byte message pad returns 9 bytes, 0x80 and the big-endian
\* encoding of 440, the padded buffer is 64 bytes and one block is
\* compressed.
C9_Pad55 ==
    /\ (mode = "lib" /\ pc \in {"m_parse", "m_block", "m_ret"} /\ Len(msg0) = 55)
       => /\ padding = << 128 >> \o BigEndian64(440)
          /\ Len(padding) = 9
          /\ Len(msg) = 64
    /\ \A k \in MessageCalls :
          Len(calls[k].input) = 55
          => calls[k].size = 64 /\ calls[k].blocks = 1

C9_Witness ==
    /\ mode = "lib" /\ pc = "m_ret"
    /\ Len(msg0) = 55
    /\ \E k \in MessageCalls : Len(calls[k].input) = 55 /\ calls[k].blocks = 1

\* C10: for every bit length l with l mod 512 > 440, pad(l) returns 0x80,
\* then (960 - (l mod 1024 + 1)) / 8 zero bytes, a count that is not negative
\* and below 128, then the big-endian encoding of l, and the padded message
\* ends one block after the block that holds the last message byte.
C10_SpillPadding ==
    (mode = "pad" /\ pc = "pad_done" /\ Nat64(l) % 512 > 440)
    => LET n == Nat64(l) \div 8
           k == 960 - ((Nat64(l) % 1024) + 1)
       IN  /\ padres.exc = "none"
           /\ k >= 0
           /\ k \div 8 < 128
           /\ padres.bytes = << 128 >> \o Zeros(k \div 8) \o BigEndian64(Nat64(l))
           /\ n + Len(padres.bytes) = (((n - 1) \div 64) + 2) * 64

\* C11: when message() starts parsing blocks the padded buffer is a
\* positive multiple of 64 bytes long; the block loop reads the byte indices
\* 0, 1, 2, ... in increasing order, each once, never one at or beyond the
\* size, and all of 0..size-1 by the time it returns; it makes size / 64
\* schedule+runschedule passes, the first from the starting digest and each
\* later one from the output of the pass before it, and returns the output
\* of the last.  (The loop counters only grow and are bounded by the size,
\* so the loop ends.)
C11_BlockLoop ==
    (pc \in {"m_parse", "m_block", "m_ret"})
    => /\ Len(msg) > 0
       /\ Len(msg) % 64 = 0
       /\ i <= Len(msg)
       /\ reads = [k \in 1..i |-> k - 1]
       /\ \A k \in 1..Len(reads) : reads[k] < Len(msg)
       /\ Len(passes) = blocks
       /\ blocks <= Len(msg) \div 64
       /\ \A k \in 1..Len(passes) :
             passes[k].in = IF k = 1 THEN start ELSE passes[k - 1].out
       /\ digest = IF blocks = 0 THEN start ELSE passes[blocks].out
       /\ start = H0
       /\ pc = "m_parse" => /\ j < 16
                            /\ i = 64 * blocks + 4 * j
                            /\ i + 3 < Len(msg)
       /\ pc = "m_block" => i = 64 * (blocks + 1)
       /\ pc = "m_ret" => /\ i = Len(msg)
                          /\ blocks = Len(msg) \div 64
                          /\ calls[Len(calls)].result = digest
                          /\ calls[Len(calls)].blocks = blocks

\* message() has returned from a buffer of three blocks.
C11_Witness ==
    /\ pc = "m_ret"
    /\ Len(msg) = 192
    /\ Len(reads) = 192
    /\ blocks = 3
    /\ passes[3].in = passes[2].out

=============================================================================
